---- MODULE Spec2Model ----
(***************************************************************************)
(* The two simulator scripts of the repository:                            *)
(*   inventory_events.py     - the MQTT ("broker") inventory simulator     *)
(*   simulate_sensor_data.py - the gRPC ("RPC") sensor simulator           *)
(* Each script is one sequential program; pc / rpc_pc is its position.     *)
(* Calls into the external libraries (paho, grpc, random, time, print) are *)
(* steps that either return or raise an Exception.                         *)
(***************************************************************************)
EXTENDS Integers, Sequences, FiniteSets, TLC

(* ------------------------------ bounds -------------------------------- *)
\* how many times the network thread invokes on_connect in one run
MaxCallbacks == 1
\* largest return code the broker hands to on_connect
MaxRc == 2
\* |quantity_change| a direct caller of publish_inventory_event may pass
MaxQty == 3
\* direct calls of publish_inventory_event explored by SpecEvent
MaxCalls == 2
\* cycles of the RPC loop that are explored
MaxCycles == 4

(* ------------------------- program constants -------------------------- *)
STORES == {"london", "munich", "paris", "berlin"}
ITEMS == {"TSHIRT-001", "JEANS-002", "SNEAKERS-003", "HAT-004", "SCARF-005"}
QUANTITIES == {-2, -1, 1, 2}
NumIterations == 100
GraceSleep == 5
SleepLo == 10
SleepHi == 20
TempLo == 20
TempHi == 35
PressureLo == 1000
PressureHi == 1100
HumidityLo == 40
HumidityHi == 60

VARIABLES
    \* ---- broker variant: run_sensor_simulation ----
    pc,               \* position of the main thread
    i,                \* completed iterations of `for _ in range(100)`
    published,        \* the message most recently handed to client.publish
    eventsBuilt,      \* payload dicts built by publish_inventory_event
    publishCalls,     \* calls of client.publish
    confirmations,    \* "Published to topic ..." prints
    sleeps,           \* per-iteration time.sleep calls that returned
    delay,            \* duration of the most recent time.sleep (0: none yet)
    exc,              \* operation of the try body that raised ("none")
    uncaught,         \* exception propagating out of the function ("none")
    errLogs,          \* "An error occurred" prints
    connectCalls,     \* calls of client.connect
    connected,        \* client.connect has returned
    loopStartCalls,   \* calls of client.loop_start
    loopRunning,      \* the network thread is running
    loopStopCalls,    \* calls of client.loop_stop
    stoppedUnstarted, \* loop_stop was called while loop_start had not been
    disconnectCalls,  \* calls of client.disconnect
    okLogs,           \* "Connected to MQTT Broker!" prints of on_connect
    failLogs,         \* "Failed to connect" prints of on_connect
    \* ---- RPC variant: module body of simulate_sensor_data.py ----
    rpc_pc,           \* position of the script
    SensorData,       \* the reading built by generate_sensor_data
    generated,        \* calls of generate_sensor_data
    sendCalls,        \* calls of stub.SendTelemetryData
    sendReturns,      \* calls of stub.SendTelemetryData that returned
    rpcConfirmations, \* "Sent sensor data:" prints
    rpcSleeps,        \* time.sleep(5) calls
    channelCloses,    \* releases of the channel by the with block
    rpcExc            \* call that raised ("none")

bvars == <<pc, i, published, eventsBuilt, publishCalls, confirmations, sleeps,
           delay, exc, uncaught, errLogs, connectCalls, connected,
           loopStartCalls, loopRunning, loopStopCalls, stoppedUnstarted,
           disconnectCalls, okLogs, failLogs>>
rvars == <<rpc_pc, SensorData, generated, sendCalls, sendReturns,
           rpcConfirmations, rpcSleeps, channelCloses, rpcExc>>
vars == <<bvars, rvars>>

\* the main thread's own state: everything on_connect must leave alone
mainVars == <<pc, i, published, eventsBuilt, publishCalls, confirmations,
              sleeps, delay, exc, uncaught, errLogs, connectCalls, connected,
              loopStartCalls, loopRunning, loopStopCalls, stoppedUnstarted,
              disconnectCalls>>

NoMsg == [topic |-> <<>>, text |-> <<>>]

(* -------------------- publish_inventory_event: data -------------------- *)
\* f"store/{store}/inventory", as its "/"-separated segments
topic(store) == <<"store", store, "inventory">>

event_type_sign(quantity_change) ==
    IF quantity_change > 0 THEN "restock" ELSE "sales"
\* "sales" if quantity_change < 0 else "restock"
event_type(quantity_change) ==
    IF quantity_change < 0 THEN "sales" ELSE "restock"

\* the payload dict, as its (key, Python type, value) entries in insertion
\* order; n stands for the fresh uuid4 / datetime.now() of the n-th event
payload_other_store(n, store, item_id, quantity_change) ==
    << <<"event_id", "str", <<"uuid", n>> >>,
       <<"item_id", "str", item_id>>,
       <<"store_id", "str", CHOOSE s \in STORES : s # store>>,
       <<"quantity_change", "int", quantity_change>>,
       <<"event_type", "str", event_type(quantity_change)>>,
       <<"timestamp", "str", <<"iso", n>> >> >>
payload(n, store, item_id, quantity_change) ==
    << <<"event_id", "str", <<"uuid", n>> >>,
       <<"item_id", "str", item_id>>,
       <<"store_id", "str", store>>,
       <<"quantity_change", "int", quantity_change>>,
       <<"event_type", "str", event_type(quantity_change)>>,
       <<"timestamp", "str", <<"iso", n>> >> >>

\* json.dumps of a flat dict: one "key": value member per entry, in order;
\* a str becomes a JSON string, an int a JSON number
json_dumps(p) ==
    [k \in 1..Len(p) |->
        <<p[k][1], IF p[k][2] = "int" THEN "number" ELSE "string", p[k][3]>>]

\* the (topic, text) pair handed to client.publish for the n-th event
message(n, store, item_id, quantity_change) ==
    [topic |-> topic(store),
     text |-> json_dumps(payload(n, store, item_id, quantity_change))]

\* on_connect(client, userdata, flags, rc): the line it prints
on_connect(rc) == IF rc = 0 THEN "connected" ELSE "failed"


(* ------------------------------- Init ---------------------------------- *)
\* the RPC script before `with grpc.insecure_channel(...)`
RpcInit ==
    /\ rpc_pc = "open"
    /\ SensorData = [temperature |-> 0, pressure |-> 0, humidity |-> 0]
    /\ generated = 0
    /\ sendCalls = 0
    /\ sendReturns = 0
    /\ rpcConfirmations = 0
    /\ rpcSleeps = 0
    /\ channelCloses = 0
    /\ rpcExc = "none"

\* run_sensor_simulation after mqtt.Client() and `client.on_connect = ...`
\* (MQTT_USER is empty, so username_pw_set is skipped), about to enter `try`
BrokerInit ==
    /\ pc = "connect"
    /\ i = 0
    /\ published = NoMsg
    /\ eventsBuilt = 0
    /\ publishCalls = 0
    /\ confirmations = 0
    /\ sleeps = 0
    /\ delay = 0
    /\ exc = "none"
    /\ uncaught = "none"
    /\ errLogs = 0
    /\ connectCalls = 0
    /\ connected = FALSE
    /\ loopStartCalls = 0
    /\ loopRunning = FALSE
    /\ loopStopCalls = 0
    /\ stoppedUnstarted = FALSE
    /\ disconnectCalls = 0
    /\ okLogs = 0
    /\ failLogs = 0

Init == BrokerInit /\ RpcInit

(* ---------------------- broker variant: actions ------------------------ *)
\* an operation of the try body raises an Exception: control leaves the body
Raise(op) ==
    /\ exc' = op
    /\ pc' = "except"

\* line 48: client.connect(MQTT_BROKER, MQTT_PORT, 60)
Connect ==
    /\ pc = "connect"
    /\ connectCalls' = connectCalls + 1
    /\ \/ /\ connected' = TRUE
          /\ pc' = "loop_start"
          /\ exc' = exc
       \/ /\ Raise("connect")
          /\ connected' = connected
    /\ UNCHANGED <<i, published, eventsBuilt, publishCalls, confirmations,
                   sleeps, delay, uncaught, errLogs, loopStartCalls,
                   loopRunning, loopStopCalls, stoppedUnstarted,
                   disconnectCalls, okLogs, failLogs>>
    /\ UNCHANGED rvars

\* line 49: client.loop_start()
LoopStart ==
    /\ pc = "loop_start"
    /\ loopStartCalls' = loopStartCalls + 1
    /\ \/ /\ loopRunning' = TRUE
          /\ pc' = "announce"
          /\ exc' = exc
       \/ /\ Raise("loop_start")
          /\ loopRunning' = loopRunning
    /\ UNCHANGED <<i, published, eventsBuilt, publishCalls, confirmations,
                   sleeps, delay, uncaught, errLogs, connectCalls, connected,
                   loopStopCalls, stoppedUnstarted, disconnectCalls, okLogs,
                   failLogs>>
    /\ UNCHANGED rvars

\* line 51: print("Starting inventory sensor simulation...")
Announce ==
    /\ pc = "announce"
    /\ \/ /\ pc' = "loop"
          /\ exc' = exc
       \/ Raise("announce")
    /\ UNCHANGED <<i, published, eventsBuilt, publishCalls, confirmations,
                   sleeps, delay, uncaught, errLogs, connectCalls, connected,
                   loopStartCalls, loopRunning, loopStopCalls,
                   stoppedUnstarted, disconnectCalls, okLogs, failLogs>>
    /\ UNCHANGED rvars

\* lines 54-58 and 25-37: one more pass of the for loop: the three
\* random.choice draws, then publish_inventory_event up to client.publish
LoopBody ==
    /\ pc = "loop"
    /\ i < NumIterations
    /\ \/ /\ Raise("select")
          /\ UNCHANGED <<published, eventsBuilt, publishCalls>>
       \/ \E store \in STORES, item_id \in ITEMS, quantity_change \in QUANTITIES :
            /\ eventsBuilt' = eventsBuilt + 1
            /\ published' = message(eventsBuilt + 1, store, item_id, quantity_change)
            /\ publishCalls' = publishCalls + 1
            /\ \/ /\ pc' = "print"
                  /\ exc' = exc
               \/ Raise("publish")
    /\ UNCHANGED <<i, confirmations, sleeps, delay, uncaught, errLogs,
                   connectCalls, connected, loopStartCalls, loopRunning,
                   loopStopCalls, stoppedUnstarted, disconnectCalls, okLogs,
                   failLogs>>
    /\ UNCHANGED rvars

\* line 38: print(f"Published to topic '{topic}': {payload}")
PrintPublished ==
    /\ pc = "print"
    /\ \/ /\ confirmations' = confirmations + 1
          /\ pc' = "sleep"
          /\ exc' = exc
       \/ /\ Raise("print")
          /\ confirmations' = confirmations
    /\ UNCHANGED <<i, published, eventsBuilt, publishCalls, sleeps, delay,
                   uncaught, errLogs, connectCalls, connected, loopStartCalls,
                   loopRunning, loopStopCalls, stoppedUnstarted,
                   disconnectCalls, okLogs, failLogs>>
    /\ UNCHANGED rvars

\* line 39: time.sleep(random.uniform(10, 20)); on return the for loop
\* takes its next value
SleepAfterPublish ==
    /\ pc = "sleep"
    /\ \/ /\ \E d \in {SleepLo, SleepHi} : delay' = d
          /\ sleeps' = sleeps + 1
          /\ i' = i + 1
          /\ pc' = "loop"
          /\ exc' = exc
       \/ /\ Raise("sleep")
          /\ UNCHANGED <<delay, sleeps, i>>
    /\ UNCHANGED <<published, eventsBuilt, publishCalls, confirmations,
                   uncaught, errLogs, connectCalls, connected, loopStartCalls,
                   loopRunning, loopStopCalls, stoppedUnstarted,
                   disconnectCalls, okLogs, failLogs>>
    /\ UNCHANGED rvars

\* line 54: range(100) is exhausted
LoopExitEarly ==
    /\ pc = "loop"
    /\ i >= NumIterations - 1
    /\ pc' = "grace"
    /\ UNCHANGED <<i, published, eventsBuilt, publishCalls, confirmations,
                   sleeps, delay, exc, uncaught, errLogs, connectCalls,
                   connected, loopStartCalls, loopRunning, loopStopCalls,
                   stoppedUnstarted, disconnectCalls, okLogs, failLogs>>
    /\ UNCHANGED rvars
LoopExit ==
    /\ pc = "loop"
    /\ i >= NumIterations
    /\ pc' = "grace"
    /\ UNCHANGED <<i, published, eventsBuilt, publishCalls, confirmations,
                   sleeps, delay, exc, uncaught, errLogs, connectCalls,
                   connected, loopStartCalls, loopRunning, loopStopCalls,
                   stoppedUnstarted, disconnectCalls, okLogs, failLogs>>
    /\ UNCHANGED rvars

\* line 60: time.sleep(5); leaving the try body runs the finally block
GraceSleepStep ==
    /\ pc = "grace"
    /\ \/ /\ delay' = GraceSleep
          /\ pc' = "loop_stop"
          /\ exc' = exc
       \/ /\ Raise("grace")
          /\ delay' = delay
    /\ UNCHANGED <<i, published, eventsBuilt, publishCalls, confirmations,
                   sleeps, uncaught, errLogs, connectCalls, connected,
                   loopStartCalls, loopRunning, loopStopCalls,
                   stoppedUnstarted, disconnectCalls, okLogs, failLogs>>
    /\ UNCHANGED rvars

\* lines 62-63: `except Exception as e` catches it and prints the error
ExceptResume ==
    /\ pc = "except"
    /\ errLogs' = errLogs + 1
    /\ pc' = IF i < NumIterations THEN "loop" ELSE "loop_stop"
    /\ UNCHANGED <<i, published, eventsBuilt, publishCalls, confirmations,
                   sleeps, delay, exc, uncaught, connectCalls, connected,
                   loopStartCalls, loopRunning, loopStopCalls,
                   stoppedUnstarted, disconnectCalls, okLogs, failLogs>>
    /\ UNCHANGED rvars
ExceptNotCaught ==
    /\ pc = "except"
    /\ uncaught' = exc
    /\ pc' = "loop_stop"
    /\ UNCHANGED <<i, published, eventsBuilt, publishCalls, confirmations,
                   sleeps, delay, exc, errLogs, connectCalls, connected,
                   loopStartCalls, loopRunning, loopStopCalls,
                   stoppedUnstarted, disconnectCalls, okLogs, failLogs>>
    /\ UNCHANGED rvars
ExceptHandler ==
    /\ pc = "except"
    /\ errLogs' = errLogs + 1
    /\ pc' = "loop_stop"
    /\ UNCHANGED <<i, published, eventsBuilt, publishCalls, confirmations,
                   sleeps, delay, exc, uncaught, connectCalls, connected,
                   loopStartCalls, loopRunning, loopStopCalls,
                   stoppedUnstarted, disconnectCalls, okLogs, failLogs>>
    /\ UNCHANGED rvars

\* line 65 (finally): client.loop_stop() returns
LoopStopGuarded ==
    /\ pc = "loop_stop"
    /\ loopStopCalls' = IF loopStartCalls > 0 THEN loopStopCalls + 1 ELSE loopStopCalls
    /\ stoppedUnstarted' = stoppedUnstarted
    /\ loopRunning' = FALSE
    /\ pc' = "disconnect"
    /\ UNCHANGED <<i, published, eventsBuilt, publishCalls, confirmations,
                   sleeps, delay, exc, uncaught, errLogs, connectCalls,
                   connected, loopStartCalls, disconnectCalls, okLogs,
                   failLogs>>
    /\ UNCHANGED rvars
LoopStop ==
    /\ pc = "loop_stop"
    /\ loopStopCalls' = loopStopCalls + 1
    /\ stoppedUnstarted' = (stoppedUnstarted \/ loopStartCalls = 0)
    /\ loopRunning' = FALSE
    /\ pc' = "disconnect"
    /\ UNCHANGED <<i, published, eventsBuilt, publishCalls, confirmations,
                   sleeps, delay, exc, uncaught, errLogs, connectCalls,
                   connected, loopStartCalls, disconnectCalls, okLogs,
                   failLogs>>
    /\ UNCHANGED rvars

\* line 66 (finally): client.disconnect() returns
DisconnectSkipped ==
    /\ pc = "disconnect"
    /\ disconnectCalls' = IF exc = "none" THEN disconnectCalls + 1 ELSE disconnectCalls
    /\ connected' = FALSE
    /\ pc' = "finish"
    /\ UNCHANGED <<i, published, eventsBuilt, publishCalls, confirmations,
                   sleeps, delay, exc, uncaught, errLogs, connectCalls,
                   loopStartCalls, loopRunning, loopStopCalls,
                   stoppedUnstarted, okLogs, failLogs>>
    /\ UNCHANGED rvars
Disconnect ==
    /\ pc = "disconnect"
    /\ disconnectCalls' = disconnectCalls + 1
    /\ connected' = FALSE
    /\ pc' = "finish"
    /\ UNCHANGED <<i, published, eventsBuilt, publishCalls, confirmations,
                   sleeps, delay, exc, uncaught, errLogs, connectCalls,
                   loopStartCalls, loopRunning, loopStopCalls,
                   stoppedUnstarted, okLogs, failLogs>>
    /\ UNCHANGED rvars

\* line 67: print("Simulation finished."); the finally block ends and an
\* exception that no handler caught goes on propagating
Finish ==
    /\ pc = "finish"
    /\ pc' = IF uncaught = "none" THEN "returned" ELSE "propagated"
    /\ UNCHANGED <<i, published, eventsBuilt, publishCalls, confirmations,
                   sleeps, delay, exc, uncaught, errLogs, connectCalls,
                   connected, loopStartCalls, loopRunning, loopStopCalls,
                   stoppedUnstarted, disconnectCalls, okLogs, failLogs>>
    /\ UNCHANGED rvars

\* lines 18-22: the network thread started by loop_start calls on_connect
\* with the broker's return code, at any moment while it runs
OnConnectAborts ==
    /\ loopRunning
    /\ okLogs + failLogs < MaxCallbacks
    /\ \E rc \in 0..MaxRc :
        /\ okLogs' = IF on_connect(rc) = "connected" THEN okLogs + 1 ELSE okLogs
        /\ failLogs' = IF on_connect(rc) = "failed" THEN failLogs + 1 ELSE failLogs
        /\ IF rc # 0 /\ pc \in {"announce", "loop", "print", "sleep", "grace"}
              THEN Raise("on_connect")
              ELSE UNCHANGED <<pc, exc>>
    /\ UNCHANGED <<i, published, eventsBuilt, publishCalls, confirmations,
                   sleeps, delay, uncaught, errLogs, connectCalls, connected,
                   loopStartCalls, loopRunning, loopStopCalls,
                   stoppedUnstarted, disconnectCalls>>
    /\ UNCHANGED rvars
OnConnect ==
    /\ loopRunning
    /\ okLogs + failLogs < MaxCallbacks
    /\ \E rc \in 0..MaxRc :
        /\ okLogs' = IF on_connect(rc) = "connected" THEN okLogs + 1 ELSE okLogs
        /\ failLogs' = IF on_connect(rc) = "failed" THEN failLogs + 1 ELSE failLogs
    /\ UNCHANGED mainVars
    /\ UNCHANGED rvars

\* a cleanup call of the finally block raises: the rest of the block is
\* skipped and the exception leaves run_sensor_simulation
LoopStopRaises ==
    /\ pc = "loop_stop"
    /\ loopStopCalls' = loopStopCalls + 1
    /\ stoppedUnstarted' = (stoppedUnstarted \/ loopStartCalls = 0)
    /\ uncaught' = "loop_stop"
    /\ pc' = "propagated"
    /\ UNCHANGED <<i, published, eventsBuilt, publishCalls, confirmations,
                   sleeps, delay, exc, errLogs, connectCalls, connected,
                   loopStartCalls, loopRunning, disconnectCalls, okLogs,
                   failLogs>>
    /\ UNCHANGED rvars

DisconnectRaises ==
    /\ pc = "disconnect"
    /\ disconnectCalls' = disconnectCalls + 1
    /\ uncaught' = "disconnect"
    /\ pc' = "propagated"
    /\ UNCHANGED <<i, published, eventsBuilt, publishCalls, confirmations,
                   sleeps, delay, exc, errLogs, connectCalls, connected,
                   loopStartCalls, loopRunning, loopStopCalls,
                   stoppedUnstarted, okLogs, failLogs>>
    /\ UNCHANGED rvars

\* run_sensor_simulation where the operations of the try body may raise
Next ==
    \/ Connect
    \/ LoopStart
    \/ Announce
    \/ LoopBody
    \/ PrintPublished
    \/ SleepAfterPublish
    \/ LoopExit
    \/ GraceSleepStep
    \/ ExceptHandler
    \/ LoopStop
    \/ Disconnect
    \/ Finish
    \/ OnConnect

Spec == Init /\ [][Next]_vars

\* run_sensor_simulation where loop_stop and disconnect may raise as well
NextCleanup ==
    \/ Next
    \/ LoopStopRaises
    \/ DisconnectRaises

SpecCleanup == Init /\ [][NextCleanup]_vars


(* ------------- publish_inventory_event called on its own --------------- *)
\* a caller holding a connected client whose network thread runs
EventInit ==
    /\ pc = "caller"
    /\ i = 0
    /\ published = NoMsg
    /\ eventsBuilt = 0
    /\ publishCalls = 0
    /\ confirmations = 0
    /\ sleeps = 0
    /\ delay = 0
    /\ exc = "none"
    /\ uncaught = "none"
    /\ errLogs = 0
    /\ connectCalls = 1
    /\ connected = TRUE
    /\ loopStartCalls = 1
    /\ loopRunning = TRUE
    /\ loopStopCalls = 0
    /\ stoppedUnstarted = FALSE
    /\ disconnectCalls = 0
    /\ okLogs = 0
    /\ failLogs = 0
    /\ RpcInit

\* lines 24-39: one whole call publish_inventory_event(client, store,
\* item_id, quantity_change), for any integer quantity_change
CallPublishInventoryEvent ==
    /\ pc = "caller"
    /\ publishCalls < MaxCalls
    /\ \E store \in STORES, item_id \in ITEMS, quantity_change \in -MaxQty..MaxQty :
        /\ eventsBuilt' = eventsBuilt + 1
        /\ published' = message(eventsBuilt + 1, store, item_id, quantity_change)
    /\ publishCalls' = publishCalls + 1
    /\ confirmations' = confirmations + 1
    /\ sleeps' = sleeps + 1
    /\ \E d \in {SleepLo, SleepHi} : delay' = d
    /\ UNCHANGED <<pc, i, exc, uncaught, errLogs, connectCalls, connected,
                   loopStartCalls, loopRunning, loopStopCalls,
                   stoppedUnstarted, disconnectCalls, okLogs, failLogs>>
    /\ UNCHANGED rvars

EventNext == CallPublishInventoryEvent

SpecEvent == EventInit /\ [][EventNext]_vars

(* ------------------------ RPC variant: actions ------------------------- *)
\* lines 7-14: generate_sensor_data(); random.uniform is sampled at the
\* ends of each range
generate_sensor_data(t, p, h, n) ==
    [sensor_id |-> "sensor-123", temperature |-> t, pressure |-> p,
     humidity |-> h, timestamp |-> <<"strftime", n>>]

\* lines 16-17: the with block opens the channel, the stub is built
OpenChannel ==
    /\ rpc_pc = "open"
    /\ rpc_pc' = "generate"
    /\ UNCHANGED <<SensorData, generated, sendCalls, sendReturns,
                   rpcConfirmations, rpcSleeps, channelCloses, rpcExc>>
    /\ UNCHANGED bvars

\* lines 18-19: `while True` has no exit test; SensorData = generate_sensor_data()
Generate ==
    /\ rpc_pc = "generate"
    /\ generated < MaxCycles
    /\ \E t \in {TempLo, TempHi}, p \in {PressureLo, PressureHi},
          h \in {HumidityLo, HumidityHi} :
            SensorData' = generate_sensor_data(t, p, h, generated + 1)
    /\ generated' = generated + 1
    /\ rpc_pc' = "send"
    /\ UNCHANGED <<sendCalls, sendReturns, rpcConfirmations, rpcSleeps,
                   channelCloses, rpcExc>>
    /\ UNCHANGED bvars

\* line 20: response = stub.SendTelemetryData(SensorData); nothing catches
\* what it raises, so the exception leaves the loop and the with block
SendWithRetry ==
    /\ rpc_pc = "send"
    /\ sendCalls' = sendCalls + 1
    /\ \/ /\ sendReturns' = sendReturns + 1
          /\ rpc_pc' = "print"
          /\ rpcExc' = rpcExc
       \/ /\ sendCalls < MaxCycles
          /\ rpcExc' = "SendTelemetryData"
          /\ rpc_pc' = "send"
          /\ sendReturns' = sendReturns
    /\ UNCHANGED <<SensorData, generated, rpcConfirmations, rpcSleeps,
                   channelCloses>>
    /\ UNCHANGED bvars
SendTelemetryData ==
    /\ rpc_pc = "send"
    /\ sendCalls' = sendCalls + 1
    /\ \/ /\ sendReturns' = sendReturns + 1
          /\ rpc_pc' = "print"
          /\ rpcExc' = rpcExc
       \/ /\ rpcExc' = "SendTelemetryData"
          /\ rpc_pc' = "channel_exit"
          /\ sendReturns' = sendReturns
    /\ UNCHANGED <<SensorData, generated, rpcConfirmations, rpcSleeps,
                   channelCloses>>
    /\ UNCHANGED bvars

\* line 21: print("Sent sensor data:", SensorData)
PrintSent ==
    /\ rpc_pc = "print"
    /\ rpcConfirmations' = rpcConfirmations + 1
    /\ rpc_pc' = "sleep"
    /\ UNCHANGED <<SensorData, generated, sendCalls, sendReturns, rpcSleeps,
                   channelCloses, rpcExc>>
    /\ UNCHANGED bvars

\* line 22: time.sleep(5), then back to the top of `while True`
SleepThenBreak ==
    /\ rpc_pc = "sleep"
    /\ rpcSleeps' = rpcSleeps + 1
    /\ rpc_pc' = IF rpcSleeps + 1 < 2 THEN "generate" ELSE "channel_exit"
    /\ UNCHANGED <<SensorData, generated, sendCalls, sendReturns,
                   rpcConfirmations, channelCloses, rpcExc>>
    /\ UNCHANGED bvars
SleepFixed ==
    /\ rpc_pc = "sleep"
    /\ rpcSleeps' = rpcSleeps + 1
    /\ rpc_pc' = "generate"
    /\ UNCHANGED <<SensorData, generated, sendCalls, sendReturns,
                   rpcConfirmations, channelCloses, rpcExc>>
    /\ UNCHANGED bvars

\* line 16: the with block's exit closes the channel while the exception
\* propagates; the process then ends with the uncaught exception
ChannelExit ==
    /\ rpc_pc = "channel_exit"
    /\ channelCloses' = channelCloses + 1
    /\ rpc_pc' = "terminated"
    /\ UNCHANGED <<SensorData, generated, sendCalls, sendReturns,
                   rpcConfirmations, rpcSleeps, rpcExc>>
    /\ UNCHANGED bvars

RpcNext ==
    \/ OpenChannel
    \/ Generate
    \/ SendTelemetryData
    \/ PrintSent
    \/ SleepFixed
    \/ ChannelExit

SpecRpc == Init /\ [][RpcNext]_vars


(* ============================== claims ================================= *)
LoopOps == {"select", "publish", "print", "sleep"}
AfterLoop == {"grace", "loop_stop", "disconnect", "finish", "returned", "propagated"}

\* reading a member back out of a JSON text
HasField(text, key) == \E k \in 1..Len(text) : text[k][1] = key
Field(text, key) ==
    LET k == CHOOSE k \in 1..Len(text) : text[k][1] = key IN text[k][3]

\* the members of the published JSON text, as a subscriber reads them
PubStore == Field(published.text, "store_id")
PubItem == Field(published.text, "item_id")
PubQty == Field(published.text, "quantity_change")
PubType == Field(published.text, "event_type")

\* C1: in a run of run_sensor_simulation in which nothing raises, every pass
\* of the loop publishes exactly one event and then sleeps, the loop makes
\* exactly 100 passes, the 5-unit grace sleep follows, and only then comes
\* disconnect: when disconnect has been called exactly 100 publish calls
\* were made, and no publish happens once the grace sleep has started.
C1_HundredThenGraceThenDisconnect ==
    /\ [](exc = "none" /\ pc = "loop" =>
            publishCalls = i /\ confirmations = i /\ sleeps = i)
    /\ [](exc = "none" /\ pc = "print" =>
            publishCalls = i + 1 /\ confirmations = i /\ sleeps = i)
    /\ [](exc = "none" /\ pc = "sleep" =>
            publishCalls = i + 1 /\ confirmations = i + 1 /\ sleeps = i)
    /\ [](exc = "none" /\ disconnectCalls > 0 =>
            /\ publishCalls = NumIterations
            /\ sleeps = NumIterations
            /\ i = NumIterations
            /\ delay = GraceSleep)
    /\ [][(pc \in AfterLoop => publishCalls' = publishCalls)]_vars
    /\ [][(exc = "none" /\ disconnectCalls' # disconnectCalls =>
            delay = GraceSleep /\ publishCalls = NumIterations)]_vars

C1_Witness ==
    /\ pc = "returned"
    /\ exc = "none"
    /\ publishCalls = NumIterations
    /\ delay = GraceSleep
    /\ disconnectCalls = 1

C4_Original ==
    /\ ~stoppedUnstarted
    /\ pc = "returned" => loopStartCalls = 1 /\ loopStopCalls = 1

\* C4 as amended: loop_stop is called exactly once in every run; loop_start
\* is called exactly once, and before loop_stop, in every run in which
\* client.connect returns; when client.connect raises loop_start is never
\* called and loop_stop is called without it.
C4_StartedAtMostOnceStoppedOnce ==
    /\ loopStartCalls <= 1
    /\ loopStopCalls <= 1
    /\ loopStopCalls = 1 => ~loopRunning
    /\ pc \in {"disconnect", "finish", "returned"} => loopStopCalls = 1
    /\ loopStopCalls = 1 /\ exc # "connect" => loopStartCalls = 1 /\ ~stoppedUnstarted
    /\ loopStopCalls = 1 /\ exc = "connect" => loopStartCalls = 0 /\ stoppedUnstarted

C4_Witness ==
    /\ pc = "returned"
    /\ exc = "connect"
    /\ loopStartCalls = 0
    /\ loopStopCalls = 1

\* C5 as stated: event_type is "restock" iff quantity_change > 0 and "sales"
\* otherwise, for every integer quantity_change, 0 included.
C5_Original ==
    publishCalls > 0 =>
        /\ PubType = "restock" <=> PubQty > 0
        /\ PubType = "sales" <=> ~(PubQty > 0)

\* C5 as amended: event_type is "sales" iff quantity_change < 0 and "restock"
\* otherwise, so quantity_change = 0 gives "restock"; for the values the
\* loop driver draws, {-2,-1,1,2}, that is "restock" iff quantity_change > 0.
C5_SalesIffNegative ==
    publishCalls > 0 =>
        /\ PubType = "sales" <=> PubQty < 0
        /\ PubType = "restock" <=> PubQty >= 0
        /\ PubQty \in QUANTITIES => (PubType = "restock" <=> PubQty > 0)

C5_Witness ==
    /\ publishCalls > 0
    /\ PubQty = 0
    /\ PubType = "restock"

\* C6 as stated: no exception raised during the run, one raised by
\* loop_stop or disconnect in the cleanup path included, leaves
\* run_sensor_simulation: every run ends in the normal-exit outcome.
C6_Original == pc # "propagated"

\* C6 as amended: an exception raised by connect, loop_start, a publish or
\* a sleep is caught and never leaves run_sensor_simulation, and the run
\* ends in the normal-exit outcome whenever loop_stop and disconnect return;
\* an exception raised by loop_stop or disconnect in the cleanup path does
\* leave run_sensor_simulation.
C6_OnlyCleanupExceptionsPropagate ==
    /\ uncaught \in {"none", "loop_stop", "disconnect"}
    /\ pc = "propagated" <=> uncaught # "none"
    /\ pc = "returned" => uncaught = "none"
    /\ pc \in {"finish", "returned"} /\ exc # "none" => errLogs = 1

C6_Witness ==
    /\ pc = "propagated"
    /\ exc = "publish"
    /\ errLogs = 1
    /\ uncaught = "disconnect"

\* C7 as stated: without external interruption the RPC loop never exits.
C7_Original == rpc_pc \notin {"channel_exit", "terminated"}

\* C7 as amended: the RPC loop has no exit of its own: without external
\* interruption it is left only when a SendTelemetryData call raises; and
\* every cycle runs generate_sensor_data, SendTelemetryData, the
\* confirmation print and the 5-unit sleep in this order, so the n-th
\* confirmation follows the return of the n-th call and the (n+1)-th call
\* follows the n-th sleep.
C7_LoopLeftOnlyByFailedCall ==
    /\ rpc_pc \in {"channel_exit", "terminated"} => rpcExc = "SendTelemetryData"
    /\ rpc_pc = "generate" =>
         /\ generated = rpcSleeps /\ sendCalls = rpcSleeps
         /\ sendReturns = rpcSleeps /\ rpcConfirmations = rpcSleeps
    /\ rpc_pc = "send" =>
         /\ generated = rpcSleeps + 1 /\ sendCalls = rpcSleeps
         /\ sendReturns = rpcSleeps /\ rpcConfirmations = rpcSleeps
    /\ rpc_pc = "print" =>
         /\ generated = rpcSleeps + 1 /\ sendCalls = rpcSleeps + 1
         /\ sendReturns = rpcSleeps + 1 /\ rpcConfirmations = rpcSleeps
    /\ rpc_pc = "sleep" =>
         /\ generated = rpcSleeps + 1 /\ sendCalls = rpcSleeps + 1
         /\ sendReturns = rpcSleeps + 1 /\ rpcConfirmations = rpcSleeps + 1
    /\ rpcConfirmations <= sendReturns
    /\ sendCalls <= rpcSleeps + 1

C7_Witness ==
    /\ rpc_pc = "send"
    /\ rpcExc = "none"
    /\ rpcSleeps = 2
    /\ rpcConfirmations = 2
    /\ generated = 3

\* C8: once a SendTelemetryData call raises, no further SendTelemetryData
\* call, confirmation print or sleep is performed, the failed reading gets
\* no confirmation, and the with block releases the channel exactly once
\* before the process ends.
C8_FailedCallTerminates ==
    /\ [][(rpcExc # "none" =>
            /\ sendCalls' = sendCalls
            /\ generated' = generated
            /\ rpcConfirmations' = rpcConfirmations
            /\ rpcSleeps' = rpcSleeps)]_vars
    /\ [](rpcExc # "none" =>
            /\ rpc_pc \in {"channel_exit", "terminated"}
            /\ sendReturns = sendCalls - 1
            /\ rpcConfirmations = sendCalls - 1)
    /\ [](channelCloses <= 1)
    /\ [](rpc_pc = "channel_exit" => channelCloses = 0)
    /\ [](rpc_pc = "terminated" => channelCloses = 1)

C8_Witness ==
    /\ rpc_pc = "terminated"
    /\ rpcExc = "SendTelemetryData"
    /\ sendCalls = 3
    /\ rpcConfirmations = 2
    /\ channelCloses = 1

\* C9: on_connect only logs, success for rc = 0 and failure for any other
\* rc: whenever the network thread invokes it, the main thread's position
\* and state are unchanged, so a run in which it reported a non-zero code
\* and nothing raised still makes all 100 publish calls, the grace sleep
\* and the disconnect.
C9_CallbackOnlyLogs ==
    /\ [][(okLogs' # okLogs \/ failLogs' # failLogs => UNCHANGED mainVars)]_vars
    /\ [][(okLogs' >= okLogs /\ failLogs' >= failLogs
             /\ okLogs' + failLogs' <= okLogs + failLogs + 1)]_vars
    /\ [](pc = "returned" /\ exc = "none" /\ failLogs > 0 =>
            /\ publishCalls = NumIterations
            /\ delay = GraceSleep
            /\ disconnectCalls = 1)

C9_Witness ==
    /\ pc = "returned"
    /\ exc = "none"
    /\ failLogs > 0
    /\ publishCalls = NumIterations
    /\ disconnectCalls = 1

\* C10: every message handed to client.publish is a fully populated event
\* with store_id in STORES, item_id in ITEMS, quantity_change in
\* {-2,-1,1,2} and topic store/{store}/inventory for the store_id of its
\* payload; one message is published per event built; and every publish
\* call is made after connect and loop_start have returned.
C10_PublishedEventsWellFormed ==
    /\ [](publishCalls > 0 =>
            /\ \A key \in {"event_id", "item_id", "store_id", "quantity_change",
                           "event_type", "timestamp"} :
                    HasField(published.text, key)
            /\ Len(published.text) = 6
            /\ PubStore \in STORES
            /\ PubItem \in ITEMS
            /\ PubQty \in QUANTITIES
            /\ PubType \in {"sales", "restock"}
            /\ Field(published.text, "event_id") = <<"uuid", publishCalls>>
            /\ Field(published.text, "timestamp") = <<"iso", publishCalls>>
            /\ published.topic = <<"store", PubStore, "inventory">>)
    /\ [](publishCalls = eventsBuilt)
    /\ [][(publishCalls' # publishCalls =>
            /\ publishCalls' = publishCalls + 1
            /\ connected /\ loopRunning
            /\ connectCalls = 1 /\ loopStartCalls = 1)]_vars

C10_Witness ==
    /\ publishCalls = NumIterations
    /\ PubStore = "berlin"
    /\ PubItem = "SCARF-005"
    /\ PubQty = -2
    /\ published.topic = <<"store", "berlin", "inventory">>

====
